---- MODULE Spec2Model ----
(***************************************************************************)
(* Model of the Incidents resource client (src/data/resources/incidents.ts)*)
(* of the Mux SDK: three methods, list, get and related, each of which     *)
(* either throws or hands one GET to the transport held in this.http and   *)
(* returns the transport's promise.                                        *)
(*                                                                         *)
(* JavaScript values are records [t, v]: a string carries its text in v;   *)
(* undefined and null carry "".  A params object is [t, entries] where     *)
(* entries is the set of its <<key, value>> pairs.                         *)
(***************************************************************************)
EXTENDS Integers, Sequences, FiniteSets, TLC

VARIABLES http, calls, requests, promises

vars == <<http, calls, requests, promises>>

-----------------------------------------------------------------------------
(* Bounds and input sets                                                   *)

MaxCalls == 3

Undefined == [t |-> "undefined", v |-> ""]
Null == [t |-> "null", v |-> ""]
Str(s) == [t |-> "string", v |-> s]

IncidentIds ==
  {Str(""), Undefined, Null, Str("ABCD1234"), Str("ABCD1234/related")}

NoParams == [t |-> "undefined", entries |-> {}]
Obj(entries) == [t |-> "object", entries |-> entries]

\* IncidentsQueryParams and IncidentsRelatedQueryParams values, each with the
\* omitted argument
ListParams == {NoParams, Obj({<<"status", "open">>, <<"severity", "warning">>})}
RelatedParams == {NoParams, Obj({<<"measurement", "median">>})}

Responses == {"incident-body"}
TransportErrors == {[name |-> "Error", message |-> "Request failed"]}

Transport == "transport"

-----------------------------------------------------------------------------
(* JavaScript semantics used by the methods                                *)

\* !x for the values an identifier can take
Falsy(x) == x.t \in {"undefined", "null"} \/ (x.t = "string" /\ x.v = "")

\* ${x} inside a template literal
Interpolate(x) ==
  IF x.t = "string" THEN x.v ELSE IF x.t = "null" THEN "null" ELSE "undefined"

\* new Error(message)
Error(message) == [name |-> "Error", message |-> message]
NoError == [name |-> "", message |-> ""]

\* the second argument of http.get: absent, or the literal { params }
NoOptions == [t |-> "undefined", params |-> NoParams]
Options(params) == [t |-> "object", params |-> params]

\* what one method body does: the transport calls it makes, in order, and
\* how it completes: "return" hands back the promise of its last transport
\* call, "throw" raises error to the caller, "reject" hands back a promise
\* already rejected with error
HttpGet(path, options) == [method |-> "GET", path |-> path, options |-> options]
Return(sent) == [kind |-> "return", error |-> NoError, sent |-> sent]
Throw(error, sent) == [kind |-> "throw", error |-> error, sent |-> sent]
Reject(error, sent) == [kind |-> "reject", error |-> error, sent |-> sent]

-----------------------------------------------------------------------------
(* The module constant and the three methods                               *)

PATH == "/data/v1/incidents"

\* list with the params defaulted to an empty object
list_defaultsParams(params) ==
  Return(<<HttpGet(PATH, Options(IF params.t = "undefined" THEN Obj({}) ELSE params))>>)

list(params) == Return(<<HttpGet(PATH, Options(params))>>)

\* encodeURIComponent, on the characters the identifiers use
RECURSIVE EncodeURIComponent(_)
EncodeURIComponent(s) ==
  IF Len(s) = 0 THEN ""
  ELSE (IF SubSeq(s, 1, 1) = "/" THEN "%2F" ELSE SubSeq(s, 1, 1))
         \o EncodeURIComponent(SubSeq(s, 2, Len(s)))

\* get handing the transport an options object
get_withParams(incidentId) ==
  IF Falsy(incidentId)
    THEN Throw(Error("An incident id is required for incident details."), <<>>)
    ELSE Return(<<HttpGet(PATH \o "/" \o Interpolate(incidentId), Options(NoParams))>>)

\* get asking the transport a second time
get_retry(incidentId) ==
  IF Falsy(incidentId)
    THEN Throw(Error("An incident id is required for incident details."), <<>>)
    ELSE Return(<<HttpGet(PATH \o "/" \o Interpolate(incidentId), NoOptions),
                  HttpGet(PATH \o "/" \o Interpolate(incidentId), NoOptions)>>)

\* get declared async: the guard's error comes back as a rejected promise
get_async(incidentId) ==
  IF Falsy(incidentId)
    THEN Reject(Error("An incident id is required for incident details."), <<>>)
    ELSE Return(<<HttpGet(PATH \o "/" \o Interpolate(incidentId), NoOptions)>>)

\* get raising the message of related
get_sameMessage(incidentId) ==
  IF Falsy(incidentId)
    THEN Throw(Error("An incident id is required for related incidents."), <<>>)
    ELSE Return(<<HttpGet(PATH \o "/" \o Interpolate(incidentId), NoOptions)>>)

\* get building its path on the path of the request before it
get_shared(incidentId) ==
  IF Falsy(incidentId)
    THEN Throw(Error("An incident id is required for incident details."), <<>>)
    ELSE Return(<<HttpGet((IF Len(requests) = 0 THEN PATH
                           ELSE requests[Len(requests)].path)
                            \o "/" \o Interpolate(incidentId), NoOptions)>>)

\* get without its guard
get_noGuard(incidentId) ==
  Return(<<HttpGet(PATH \o "/" \o Interpolate(incidentId), NoOptions)>>)

\* get escaping the identifier
get_encoded(incidentId) ==
  IF Falsy(incidentId)
    THEN Throw(Error("An incident id is required for incident details."), <<>>)
    ELSE Return(<<HttpGet(PATH \o "/" \o EncodeURIComponent(Interpolate(incidentId)),
                          NoOptions)>>)

get(incidentId) ==
  IF Falsy(incidentId)
    THEN Throw(Error("An incident id is required for incident details."), <<>>)
    ELSE Return(<<HttpGet(PATH \o "/" \o Interpolate(incidentId), NoOptions)>>)

\* related without its guard
related_noGuard(incidentId, params) ==
  Return(<<HttpGet(PATH \o "/" \o Interpolate(incidentId) \o "/related",
                   Options(params))>>)

\* related leaving the params out
related_dropsParams(incidentId, params) ==
  IF Falsy(incidentId)
    THEN Throw(Error("An incident id is required for related incidents."), <<>>)
    ELSE Return(<<HttpGet(PATH \o "/" \o Interpolate(incidentId) \o "/related",
                          NoOptions)>>)

related(incidentId, params) ==
  IF Falsy(incidentId)
    THEN Throw(Error("An incident id is required for related incidents."), <<>>)
    ELSE Return(<<HttpGet(PATH \o "/" \o Interpolate(incidentId) \o "/related",
                          Options(params))>>)

-----------------------------------------------------------------------------
(* State machine                                                           *)

Pending == [state |-> "pending", value |-> "", error |-> NoError]
Resolved(v) == [state |-> "resolved", value |-> v, error |-> NoError]
Rejected(e) == [state |-> "rejected", value |-> "", error |-> e]

Init ==
  /\ http = Transport
  /\ calls = <<>>
  /\ requests = <<>>
  /\ promises = <<>>

\* One call of a method on the instance, run to its return or throw: the
\* state after it.  Each transport call of the body goes to this.http and is
\* logged with the promise the transport hands back for it.
Invoke(op, incidentId, params, effect) ==
  LET n == Len(calls) + 1
      base == Len(promises)
      m == Len(effect.sent)
      own == IF effect.kind = "reject" THEN <<Rejected(effect.error)>> ELSE <<>>
      ret == IF effect.kind = "return" THEN base + m
             ELSE IF effect.kind = "reject" THEN base + m + 1
             ELSE 0
  IN [requests |-> requests \o
        [k \in 1..m |-> [method |-> effect.sent[k].method,
                         path |-> effect.sent[k].path,
                         options |-> effect.sent[k].options,
                         via |-> http,
                         caller |-> n,
                         promise |-> base + k]],
      promises |-> promises \o [k \in 1..m |-> Pending] \o own,
      calls |-> Append(calls, [op |-> op, incidentId |-> incidentId,
                               params |-> params, kind |-> effect.kind,
                               error |-> effect.error, ret |-> ret])]

List ==
  \E params \in ListParams :
    LET after == Invoke("list", Undefined, params, list(params))
    IN /\ Len(calls) < MaxCalls
       /\ requests' = after.requests
       /\ promises' = after.promises
       /\ calls' = after.calls
       /\ UNCHANGED http

Get ==
  \E incidentId \in IncidentIds :
    LET after == Invoke("get", incidentId, NoParams, get(incidentId))
    IN /\ Len(calls) < MaxCalls
       /\ requests' = after.requests
       /\ promises' = after.promises
       /\ calls' = after.calls
       /\ UNCHANGED http

Related ==
  \E incidentId \in IncidentIds, params \in RelatedParams :
    LET after == Invoke("related", incidentId, params, related(incidentId, params))
    IN /\ Len(calls) < MaxCalls
       /\ requests' = after.requests
       /\ promises' = after.promises
       /\ calls' = after.calls
       /\ UNCHANGED http

\* The transport settles one of its outstanding promises.
IsTransportPromise(p) == \E k \in 1..Len(requests) : requests[k].promise = p

TransportResolve ==
  \E p \in 1..Len(promises), v \in Responses :
    /\ IsTransportPromise(p)
    /\ promises[p].state = "pending"
    /\ promises' = [promises EXCEPT ![p] = Resolved(v)]
    /\ UNCHANGED <<http, calls, requests>>

TransportReject ==
  \E p \in 1..Len(promises), e \in TransportErrors :
    /\ IsTransportPromise(p)
    /\ promises[p].state = "pending"
    /\ promises' = [promises EXCEPT ![p] = Rejected(e)]
    /\ UNCHANGED <<http, calls, requests>>

Next == List \/ Get \/ Related \/ TransportResolve \/ TransportReject

Spec == Init /\ [][Next]_vars

-----------------------------------------------------------------------------
(* Vocabulary of the properties                                            *)

CallIds == 1..Len(calls)
RequestsOf(i) == {k \in 1..Len(requests) : requests[k].caller = i}

\* sub occurs in s
Contains(s, sub) ==
  \E a \in 1..(Len(s) - Len(sub) + 1) : SubSeq(s, a, a + Len(sub) - 1) = sub

EmptyOrMissing(x) == x = Str("") \/ x = Undefined \/ x = Null
NonEmptyString(x) == x.t = "string" /\ x.v # ""
TakesId(i) == calls[i].op \in {"get", "related"}

\* the error of the validation guard: an Error that says an id is required
InvalidArgument(e) == e.name = "Error" /\ Contains(e.message, "is required")
FailedInvalid(i) == calls[i].kind # "return" /\ InvalidArgument(calls[i].error)

\* what the caller of call i holds, and what the transport made of request k
CallerOutcome(i) == promises[calls[i].ret]
TransportOutcome(k) == promises[requests[k].promise]
Settled(i) == calls[i].ret # 0 /\ CallerOutcome(i).state # "pending"

-----------------------------------------------------------------------------
(* C1: get and related called with an empty or missing identifier ("",     *)
(* undefined, null) fail with the validation error, and that call hands    *)
(* nothing to the transport.                                               *)
C1_EmptyIdFailsWithoutTransport ==
  \A i \in CallIds :
    (TakesId(i) /\ EmptyOrMissing(calls[i].incidentId)) =>
      /\ FailedInvalid(i)
      /\ RequestsOf(i) = {}

C1_Witness ==
  \E i, j \in CallIds :
    /\ calls[i].op = "get" /\ calls[j].op = "related"
    /\ EmptyOrMissing(calls[i].incidentId) /\ EmptyOrMissing(calls[j].incidentId)
    /\ calls[i].incidentId # calls[j].incidentId
    /\ \E k \in CallIds : RequestsOf(k) # {}

(* C2: get with a non-empty identifier makes exactly one transport call, a *)
(* GET of '/data/v1/incidents/' followed by the identifier, with no        *)
(* options argument and so no query parameters.                            *)
C2_GetOneCallNoParams ==
  \A i \in CallIds :
    (calls[i].op = "get" /\ NonEmptyString(calls[i].incidentId)) =>
      /\ Cardinality(RequestsOf(i)) = 1
      /\ \A k \in RequestsOf(i) :
           /\ requests[k].method = "GET"
           /\ requests[k].path = "/data/v1/incidents/" \o calls[i].incidentId.v
           /\ requests[k].options.t = "undefined"
           /\ requests[k].options.params.t = "undefined"

C2_Witness ==
  \E i \in CallIds :
    /\ calls[i].op = "get" /\ calls[i].incidentId = Str("ABCD1234")
    /\ \E k \in RequestsOf(i) : requests[k].path = "/data/v1/incidents/ABCD1234"

(* C3: related with a non-empty identifier and any params, an omitted one  *)
(* included, makes exactly one transport call, a GET of                    *)
(* '/data/v1/incidents/' + id + '/related' whose options carry the params  *)
(* it was given, unchanged.                                                *)
C3_RelatedOneCallSameParams ==
  \A i \in CallIds :
    (calls[i].op = "related" /\ NonEmptyString(calls[i].incidentId)) =>
      /\ Cardinality(RequestsOf(i)) = 1
      /\ \A k \in RequestsOf(i) :
           /\ requests[k].method = "GET"
           /\ requests[k].path =
                "/data/v1/incidents/" \o calls[i].incidentId.v \o "/related"
           /\ requests[k].options.t = "object"
           /\ requests[k].options.params = calls[i].params

C3_Witness ==
  \E i, j \in CallIds :
    /\ calls[i].op = "related" /\ calls[j].op = "related"
    /\ calls[i].incidentId = Str("ABCD1234")
    /\ calls[i].params = Obj({<<"measurement", "median">>})
    /\ \E k \in RequestsOf(i) :
         /\ requests[k].path = "/data/v1/incidents/ABCD1234/related"
         /\ requests[k].options.params = Obj({<<"measurement", "median">>})
    /\ NonEmptyString(calls[j].incidentId) /\ calls[j].params = NoParams
    /\ RequestsOf(j) # {}

(* C4: list validates nothing and never fails with the validation error:   *)
(* for any params, an omitted one included, it makes exactly one transport *)
(* call, a GET of '/data/v1/incidents' whose options carry the params as   *)
(* given (undefined when omitted, no key renamed, added or dropped).       *)
C4_ListPassesParamsThrough ==
  \A i \in CallIds :
    calls[i].op = "list" =>
      /\ calls[i].kind = "return"
      /\ ~InvalidArgument(calls[i].error)
      /\ Cardinality(RequestsOf(i)) = 1
      /\ \A k \in RequestsOf(i) :
           /\ requests[k].method = "GET"
           /\ requests[k].path = "/data/v1/incidents"
           /\ requests[k].options.t = "object"
           /\ requests[k].options.params = calls[i].params

C4_Witness ==
  \E i, j \in CallIds :
    /\ calls[i].op = "list" /\ calls[i].params = NoParams
    /\ \E k \in RequestsOf(i) : requests[k].options.params.t = "undefined"
    /\ calls[j].op = "list"
    /\ \E k \in RequestsOf(j) :
         requests[k].options.params.entries =
           {<<"status", "open">>, <<"severity", "warning">>}

(* C5: for list, and for get and related with a non-empty identifier, the  *)
(* caller sees exactly the outcome of one transport call: the promise it   *)
(* holds is the promise of the only request the call made, pending,        *)
(* resolved with the transport's value or rejected with the transport's    *)
(* error, and no second request is ever made for the call.                 *)
C5_OutcomeIsTransportOutcome ==
  \A i \in CallIds :
    (calls[i].op = "list" \/ NonEmptyString(calls[i].incidentId)) =>
      /\ calls[i].kind = "return"
      /\ calls[i].ret \in 1..Len(promises)
      /\ Cardinality(RequestsOf(i)) = 1
      /\ \A k \in RequestsOf(i) :
           /\ requests[k].promise = calls[i].ret
           /\ CallerOutcome(i) = TransportOutcome(k)
           /\ CallerOutcome(i).state = "resolved" =>
                CallerOutcome(i).value \in Responses
           /\ CallerOutcome(i).state = "rejected" =>
                CallerOutcome(i).error \in TransportErrors

C5_Witness ==
  \E i, j \in CallIds :
    /\ calls[i].kind = "return" /\ calls[j].kind = "return"
    /\ calls[i].op = "get"
    /\ CallerOutcome(i).state = "resolved"
    /\ CallerOutcome(j).state = "rejected"

(* C6: the validation failure of get and related is raised at the call     *)
(* itself: the call throws, returns no promise, and has started no         *)
(* transport call, so the only promises in existence are the transport's.  *)
C6_InvalidIdThrowsSynchronously ==
  /\ \A i \in CallIds :
       (TakesId(i) /\ EmptyOrMissing(calls[i].incidentId)) =>
         /\ calls[i].kind = "throw"
         /\ calls[i].ret = 0
         /\ RequestsOf(i) = {}
  /\ Len(promises) = Len(requests)
  /\ \A p \in 1..Len(promises) : IsTransportPromise(p)

C6_Witness ==
  \E i, j, l \in CallIds :
    /\ calls[i].op = "get" /\ calls[i].kind = "throw"
    /\ calls[j].op = "related" /\ calls[j].kind = "throw"
    /\ calls[l].kind = "return"

(* C7: the message of the validation error tells the operations apart and  *)
(* names the argument: the one raised by get differs from the one raised   *)
(* by related, and each names the incident id.                             *)
C7_MessagesNameOperationAndArgument ==
  /\ \A i \in CallIds :
       calls[i].kind # "return" => Contains(calls[i].error.message, "incident id")
  /\ \A i, j \in CallIds :
       (/\ calls[i].kind # "return" /\ calls[j].kind # "return"
        /\ calls[i].op = "get" /\ calls[j].op = "related") =>
         calls[i].error.message # calls[j].error.message

C7_Witness ==
  \E i, j \in CallIds :
    /\ calls[i].op = "get" /\ calls[i].kind = "throw"
    /\ calls[j].op = "related" /\ calls[j].kind = "throw"
    /\ calls[i].error.message = "An incident id is required for incident details."
    /\ calls[j].error.message = "An incident id is required for related incidents."

(* C8: calls on one instance share no mutable state.  In every             *)
(* interleaving of calls and transport completions: two calls of the same  *)
(* operation with the same arguments issue the same request and complete   *)
(* the same way wherever they stand in the history; every call holds a     *)
(* promise of its own; a step never alters an earlier call, its request,   *)
(* or the outcome of any call but the one whose promise the transport      *)
(* settles; and the instance's transport reference never changes.          *)
SameRequests(i, j) ==
  /\ Cardinality(RequestsOf(i)) = Cardinality(RequestsOf(j))
  /\ \A k \in RequestsOf(i), l \in RequestsOf(j) :
       /\ requests[k].method = requests[l].method
       /\ requests[k].path = requests[l].path
       /\ requests[k].options = requests[l].options
       /\ requests[k].via = requests[l].via

C8_CallsIndependent ==
  \A i, j \in CallIds :
    /\ (/\ calls[i].op = calls[j].op
        /\ calls[i].incidentId = calls[j].incidentId
        /\ calls[i].params = calls[j].params) =>
         /\ SameRequests(i, j)
         /\ calls[i].kind = calls[j].kind
         /\ calls[i].error = calls[j].error
    /\ (i # j /\ calls[i].ret # 0) => calls[i].ret # calls[j].ret

C8_StepsIsolated ==
  /\ http' = http
  /\ \A i \in CallIds :
       /\ calls'[i] = calls[i]
       /\ \A k \in RequestsOf(i) : requests'[k] = requests[k]
  /\ \A i, j \in CallIds :
       (/\ i # j /\ calls[i].ret # 0 /\ calls[j].ret # 0
        /\ promises'[calls[i].ret] # promises[calls[i].ret]) =>
         promises'[calls[j].ret] = promises[calls[j].ret]

C8_NoSharedMutableState == [](C8_CallsIndependent /\ http = Transport)
                             /\ [][C8_StepsIsolated]_vars

C8_Witness ==
  \E i, j \in CallIds :
    /\ i < j
    /\ calls[i].op = "get" /\ calls[j].op = "get"
    /\ calls[i].incidentId = calls[j].incidentId
    /\ calls[i].kind = "return"
    /\ CallerOutcome(i).state = "pending"
    /\ CallerOutcome(j).state = "rejected"
    /\ \E l \in CallIds : l < j /\ calls[l].op # "get" /\ Settled(l)

(* C9: after any sequence of calls, every request the transport received   *)
(* is a GET of '/data/v1/incidents', '/data/v1/incidents/{id}' or          *)
(* '/data/v1/incidents/{id}/related', by list, get and related             *)
(* respectively, with a non-empty id equal to the argument of the call     *)
(* that issued it; and there are as many requests as calls that did not    *)
(* fail with the validation error.                                         *)
C9_RequestsWellFormed ==
  /\ \A k \in 1..Len(requests) :
       LET c == calls[requests[k].caller]
       IN /\ requests[k].method = "GET"
          /\ requests[k].caller \in CallIds
          /\ c.op = "list" => requests[k].path = "/data/v1/incidents"
          /\ c.op \in {"get", "related"} => NonEmptyString(c.incidentId)
          /\ c.op = "get" =>
               requests[k].path = "/data/v1/incidents/" \o c.incidentId.v
          /\ c.op = "related" =>
               requests[k].path = "/data/v1/incidents/" \o c.incidentId.v \o "/related"
  /\ Len(requests) = Cardinality({i \in CallIds : ~FailedInvalid(i)})

C9_Witness ==
  /\ Len(calls) = MaxCalls
  /\ Len(requests) = 2
  /\ \E i \in CallIds : FailedInvalid(i)
  /\ \E k, l \in 1..Len(requests) :
       /\ calls[requests[k].caller].op = "get"
       /\ calls[requests[l].caller].op = "related"

(* C10: validation checks emptiness only: every non-empty string is        *)
(* accepted and put into the path as it is, a path separator included, so  *)
(* get(x + '/related') asks the transport for the same path as related(x), *)
(* the two differing only in that get passes no params.                    *)
C10_IdInterpolatedVerbatim ==
  /\ \A i \in CallIds :
       (TakesId(i) /\ NonEmptyString(calls[i].incidentId)) =>
         /\ calls[i].kind = "return"
         /\ \E k \in RequestsOf(i) :
              Contains(requests[k].path, "/" \o calls[i].incidentId.v)
  /\ \A i, j \in CallIds :
       (/\ calls[i].op = "get" /\ calls[j].op = "related"
        /\ NonEmptyString(calls[j].incidentId)
        /\ calls[i].incidentId = Str(calls[j].incidentId.v \o "/related")) =>
         /\ RequestsOf(i) # {} /\ RequestsOf(j) # {}
         /\ \A k \in RequestsOf(i), l \in RequestsOf(j) :
              /\ requests[k].path = requests[l].path
              /\ requests[k].method = requests[l].method
              /\ requests[k].options.t = "undefined"
              /\ requests[l].options.t = "object"

C10_Witness ==
  \E i, j \in CallIds :
    /\ calls[i].op = "get" /\ calls[i].incidentId = Str("ABCD1234/related")
    /\ calls[j].op = "related" /\ calls[j].incidentId = Str("ABCD1234")
    /\ \E k \in RequestsOf(i) :
         requests[k].path = "/data/v1/incidents/ABCD1234/related"

====
